---- MODULE Spec2Model ----
(***************************************************************************)
(* vpicc: the card side of the vpcd virtual smartcard protocol.            *)
(*                                                                         *)
(* The model follows src/src/lib.rs: a Connection owns one TCP stream,     *)
(* poll reads one length-prefixed frame, dispatches it to a VSmartCard     *)
(* and writes at most one length-prefixed response; run loops over poll    *)
(* until it fails.  The stream is modelled byte by byte: the peer appends  *)
(* bytes to the receive buffer and may close, the connection's writes are  *)
(* accepted by the stream in one or several pieces or fail.                *)
(***************************************************************************)
EXTENDS Integers, Sequences, FiniteSets, TLC

VARIABLES
    received,    \* every byte the peer has delivered so far
    inbuf,       \* bytes received from the peer and not yet consumed by read
    peerClosed,  \* the peer has closed its sending side (reads hit EOF)
    peerBudget,  \* bytes the peer may still send
    outbound,    \* every byte the stream has accepted from the connection
    echoed,      \* how many bytes of outbound a loopback peer has sent back
    card,        \* the VSmartCard the driver passes to poll/run
    driver,      \* "run": Connection::run drives poll; "poll": the application does
    pc,          \* position inside poll / run
    size,        \* poll/read local: the decoded length prefix
    msg,         \* poll local: the frame read
    wbuf,        \* send local: the part of the buffer write_all still has to write
    shortWrites, \* short writes the stream has answered so far
    calls,       \* every VSmartCard method call made so far, in order
    frames,      \* every frame Connection::read has returned so far, in order
    results,     \* the result of every poll that has returned so far, in order
    entry,       \* lengths of the histories when the current/last poll was entered
    runResult    \* what Connection::run returned, once it has

vars == << received, inbuf, peerClosed, peerBudget, outbound, echoed, card, driver, pc,
           size, msg, wbuf, shortWrites, calls, frames, results, entry,
           runResult >>

-----------------------------------------------------------------------------
(* Bounds of the exploration                                               *)

MaxSent == 5          \* bytes a scripted peer sends at most
MaxPolls == 3         \* polls an application that calls poll itself makes at most
MaxShortWrites == 1   \* short writes the stream answers at most
MaxEchoes == 2        \* times a loopback peer sends written bytes back

PeerBytes == {0, 1, 2, 3, 4}   \* the byte values a scripted peer sends

-----------------------------------------------------------------------------
(* Bytes and the 16-bit length prefix                                      *)

U8Mod == 256
U16Mod == 65536

DEFAULT_ATR == << 59, 149, 19, 129, 1, 128, 115, 255, 1, 0, 11 >>

\* faulty variant: only the low byte of the prefix is used
FromLowByte(b) == b[2]

\* u16::from_be_bytes
FromBeBytes(b) == b[1] * U8Mod + b[2]

\* faulty variant: the prefix written as little-endian
ToLeBytes(n) == << (n % U16Mod) % U8Mod, (n % U16Mod) \div U8Mod >>

\* (n as u16).to_be_bytes(): the cast keeps the low 16 bits
ToBeBytes(n) == << (n % U16Mod) \div U8Mod, (n % U16Mod) % U8Mod >>

Take(s, n) == SubSeq(s, 1, n)
Drop(s, n) == SubSeq(s, n + 1, Len(s))
Last(s) == s[Len(s)]

\* the buffer Connection::send hands to write_all
SendMsg(data) == ToBeBytes(Len(data)) \o data

-----------------------------------------------------------------------------
(* io::Result values                                                       *)

Ok == [kind |-> "Ok", detail |-> -1]
\* read_exact fails: the stream ended before the buffer was filled
ErrUnexpectedEof == [kind |-> "UnexpectedEof", detail |-> -1]
\* write_all fails: the stream no longer takes bytes
ErrBrokenPipe == [kind |-> "BrokenPipe", detail |-> -1]
\* Error::new(ErrorKind::Other, "received an empty message")
ErrEmptyMessage == [kind |-> "Other: received an empty message", detail |-> -1]
\* Error::new(ErrorKind::InvalidData, format!("unsupported control command {}", command))
ErrUnsupported(command) == [kind |-> "InvalidData: unsupported control command", detail |-> command]

IsErr(r) == r.kind # "Ok"

-----------------------------------------------------------------------------
(* Command                                                                 *)

\* faulty variant: the codes of PowerOff and PowerOn exchanged
TryFromSwapped(command) ==
    CASE command = 0 -> [ok |-> TRUE, cmd |-> "PowerOn", err |-> Ok]
      [] command = 1 -> [ok |-> TRUE, cmd |-> "PowerOff", err |-> Ok]
      [] command = 2 -> [ok |-> TRUE, cmd |-> "Reset", err |-> Ok]
      [] command = 4 -> [ok |-> TRUE, cmd |-> "GetAtr", err |-> Ok]
      [] OTHER -> [ok |-> FALSE, cmd |-> "none", err |-> ErrUnsupported(command)]

\* impl TryFrom<u8> for Command
TryFrom(command) ==
    CASE command = 0 -> [ok |-> TRUE, cmd |-> "PowerOff", err |-> Ok]
      [] command = 1 -> [ok |-> TRUE, cmd |-> "PowerOn", err |-> Ok]
      [] command = 2 -> [ok |-> TRUE, cmd |-> "Reset", err |-> Ok]
      [] command = 4 -> [ok |-> TRUE, cmd |-> "GetAtr", err |-> Ok]
      [] OTHER -> [ok |-> FALSE, cmd |-> "none", err |-> ErrUnsupported(command)]

-----------------------------------------------------------------------------
(* VSmartCard implementations                                              *)

\* A card that overrides atr() answers differently after a reset (warm ATR)
COLD_ATR == << 59, 128, 128, 1, 1 >>
WARM_ATR == << 59, 0 >>

Fill(n, b) == [i \in 1..n |-> b]

\* the responses the loopback card chooses from: every dispatch class of a
\* frame, both sides of the 8-bit and of the 16-bit boundary of the prefix
WirePayloads ==
    { << >>, << 0 >>, << 1 >>, << 2 >>, << 3 >>, << 4 >>, << 144, 0 >>,
      << 5 >>, << 255 >>, Fill(U8Mod - 1, 7), Fill(U8Mod, 7), Fill(U8Mod + 1, 7),
      Fill(U16Mod - 1, 7), Fill(U16Mod, 7), Fill(U16Mod + 1, 7) }

\* VSmartCard::atr: DEFAULT_ATR unless the implementation overrides it
Atr(c) ==
    IF c.kind = "Dummy" THEN DEFAULT_ATR
    ELSE IF c.warm THEN WARM_ATR ELSE COLD_ATR

\* VSmartCard::power_on / power_off / reset: no-ops by default (and in
\* DummySmartCard, which only logs); an implementation may keep state
PowerOn(c) == IF c.kind = "Dummy" THEN c ELSE [c EXCEPT !.warm = FALSE]
PowerOff(c) == IF c.kind = "Dummy" THEN c ELSE [c EXCEPT !.warm = FALSE]
Reset(c) == IF c.kind = "Dummy" THEN c ELSE [c EXCEPT !.warm = TRUE]

\* VSmartCard::execute: the response APDUs the implementation may return.
\* DummySmartCard answers 90 00; another card may answer nothing, 90 00 or the
\* command itself; the loopback card answers READ with any of WirePayloads
\* and every other command with 90 00
READ == << 0, 176 >>

Execute(c, m) ==
    CASE c.kind = "Dummy" -> { << 144, 0 >> }
      [] c.kind = "Custom" -> { << >>, << 144, 0 >>, m }
      [] OTHER -> IF m = READ THEN WirePayloads ELSE { << 144, 0 >> }

Call(op, arg, ret) == [op |-> op, arg |-> arg, ret |-> ret]

-----------------------------------------------------------------------------
(* The stream                                                              *)

\* the Connection has been dropped: run returned (it consumes self), or the
\* application has made its last poll
Dropped ==
    \/ pc = "returned"
    \/ driver = "poll" /\ pc = "idle" /\ Len(results) >= MaxPolls

PeerSend ==
    /\ ~Dropped
    /\ ~peerClosed
    /\ peerBudget > 0
    /\ \E b \in PeerBytes :
          /\ inbuf' = Append(inbuf, b)
          /\ received' = Append(received, b)
    /\ peerBudget' = peerBudget - 1
    /\ UNCHANGED << peerClosed, outbound, echoed, card, driver, pc, size, msg,
                    wbuf, shortWrites, calls, frames, results, entry,
                    runResult >>

PeerClose ==
    /\ ~Dropped
    /\ ~peerClosed
    /\ peerClosed' = TRUE
    /\ UNCHANGED << received, inbuf, peerBudget, outbound, echoed, card, driver, pc, size,
                    msg, wbuf, shortWrites, calls, frames, results,
                    entry, runResult >>

\* a loopback peer sends back, unchanged, what the connection has written
PeerEcho ==
    /\ ~Dropped
    /\ ~peerClosed
    /\ Len(echoed) < MaxEchoes
    /\ Len(outbound) > (IF echoed = << >> THEN 0 ELSE Last(echoed))
    /\ inbuf' = inbuf \o Drop(outbound, IF echoed = << >> THEN 0 ELSE Last(echoed))
    /\ received' = received \o Drop(outbound, IF echoed = << >> THEN 0 ELSE Last(echoed))
    /\ echoed' = Append(echoed, Len(outbound))
    /\ UNCHANGED << peerClosed, peerBudget, outbound, card, driver, pc, size,
                    msg, wbuf, shortWrites, calls, frames, results,
                    entry, runResult >>

-----------------------------------------------------------------------------
(* Connection::run and the application calling Connection::poll            *)

\* faulty variant: the loop ignores poll's result
ContinuesAlways(r) == TRUE

\* `self.poll(card)?` inside `loop`: the loop goes on while poll returns Ok
Continues(r) == ~IsErr(r)

EnterPoll ==
    /\ pc' = "read_size"
    /\ entry' = [calls |-> Len(calls), out |-> Len(outbound),
                 frames |-> Len(frames)]
    /\ UNCHANGED << received, inbuf, peerClosed, peerBudget, outbound, echoed, card,
                    driver, size, msg, wbuf, shortWrites, calls, frames,
                    results, runResult >>

RunPoll ==
    /\ driver = "run"
    /\ pc = "idle"
    /\ results # << >> => Continues(Last(results))
    /\ EnterPoll

RunReturn ==
    /\ driver = "run"
    /\ pc = "idle"
    /\ results # << >>
    /\ ~Continues(Last(results))
    /\ pc' = "returned"
    /\ runResult' = Last(results)
    /\ UNCHANGED << received, inbuf, peerClosed, peerBudget, outbound, echoed, card,
                    driver, size, msg, wbuf, shortWrites, calls, frames,
                    results, entry >>

\* poll is public and takes &mut self: the application may call it again
\* whatever the previous call returned
AppPoll ==
    /\ driver = "poll"
    /\ pc = "idle"
    /\ Len(results) < MaxPolls
    /\ EnterPoll

-----------------------------------------------------------------------------
(* Connection::read                                                        *)

\* poll returns r to its caller
Return(r) ==
    /\ results' = Append(results, r)
    /\ pc' = "idle"

\* read_exact(&mut size) and u16::from_be_bytes
ReadSize ==
    /\ pc = "read_size"
    /\ Len(inbuf) >= 2
    /\ size' = FromBeBytes(Take(inbuf, 2))
    /\ inbuf' = Drop(inbuf, 2)
    /\ pc' = "read_msg"
    /\ UNCHANGED << received, peerClosed, peerBudget, outbound, echoed, card, driver, msg,
                    wbuf, shortWrites, calls, frames, results, entry,
                    runResult >>

\* faulty variant: a short read of the prefix is accepted, the missing bytes read as 0
ReadSizeShort ==
    /\ pc = "read_size"
    /\ Len(inbuf) < 2
    /\ peerClosed
    /\ size' = FromBeBytes(inbuf \o Fill(2 - Len(inbuf), 0))
    /\ inbuf' = << >>
    /\ pc' = "read_msg"
    /\ UNCHANGED << received, peerClosed, peerBudget, outbound, echoed, card, driver,
                    msg, wbuf, shortWrites, calls, frames, results,
                    entry, runResult >>

\* read_exact(&mut size)? at end of stream: UnexpectedEof, what was there is consumed
ReadSizeEof ==
    /\ pc = "read_size"
    /\ Len(inbuf) < 2
    /\ peerClosed
    /\ inbuf' = << >>
    /\ Return(ErrUnexpectedEof)
    /\ UNCHANGED << received, peerClosed, peerBudget, outbound, echoed, card, driver,
                    size, msg, wbuf, shortWrites, calls, frames, entry,
                    runResult >>

\* faulty variant: the payload is read through a buffer that takes every byte
\* the stream has and is dropped with the call
ReadMsgGreedy ==
    /\ pc = "read_msg"
    /\ Len(inbuf) >= size
    /\ msg' = Take(inbuf, size)
    /\ inbuf' = << >>
    /\ frames' = Append(frames, Take(inbuf, size))
    /\ pc' = "dispatch"
    /\ UNCHANGED << received, peerClosed, peerBudget, outbound, echoed, card, driver,
                    size, wbuf, shortWrites, calls, results, entry,
                    runResult >>

\* vec![0u8; size], read_exact(&mut msg), Ok(msg)
ReadMsg ==
    /\ pc = "read_msg"
    /\ Len(inbuf) >= size
    /\ msg' = Take(inbuf, size)
    /\ inbuf' = Drop(inbuf, size)
    /\ frames' = Append(frames, Take(inbuf, size))
    /\ pc' = "dispatch"
    /\ UNCHANGED << received, peerClosed, peerBudget, outbound, echoed, card, driver,
                    size, wbuf, shortWrites, calls, results, entry,
                    runResult >>

\* faulty variant: the end of the stream inside a payload is taken for "no data
\* yet" and the read waits on
ReadMsgEofIgnored ==
    /\ pc = "read_msg"
    /\ Len(inbuf) < size
    /\ peerClosed
    /\ UNCHANGED vars

\* read_exact(&mut msg)? at end of stream
ReadMsgEof ==
    /\ pc = "read_msg"
    /\ Len(inbuf) < size
    /\ peerClosed
    /\ inbuf' = << >>
    /\ Return(ErrUnexpectedEof)
    /\ UNCHANGED << received, peerClosed, peerBudget, outbound, echoed, card, driver,
                    size, msg, wbuf, shortWrites, calls, frames, entry,
                    runResult >>

-----------------------------------------------------------------------------
(* Connection::send                                                        *)

\* send(data) up to the call of write_all
StartSend(data) ==
    /\ wbuf' = SendMsg(data)
    /\ pc' = "send"

\* write_all: the stream accepts all that is left; send and poll return Ok(())
WriteRest ==
    /\ pc = "send"
    /\ outbound' = outbound \o wbuf
    /\ wbuf' = << >>
    /\ Return(Ok)
    /\ UNCHANGED << received, inbuf, peerClosed, peerBudget, echoed, card, driver, size,
                    msg, shortWrites, calls, frames, entry, runResult >>

\* the byte counts a short write may report
ShortWriteLens == { 1, 3 }

\* write_all: the stream accepts only a part; write_all goes on with the rest
WriteShort ==
    /\ pc = "send"
    /\ shortWrites < MaxShortWrites
    /\ \E k \in ShortWriteLens :
          /\ k < Len(wbuf)
          /\ outbound' = outbound \o Take(wbuf, k)
          /\ wbuf' = Drop(wbuf, k)
    /\ shortWrites' = shortWrites + 1
    /\ UNCHANGED << received, inbuf, peerClosed, peerBudget, echoed, card, driver, pc,
                    size, msg, calls, frames, results, entry, runResult >>

\* write_all(msg)?: the stream fails; the error is poll's result
WriteErr ==
    /\ pc = "send"
    /\ Return(ErrBrokenPipe)
    /\ UNCHANGED << received, inbuf, peerClosed, peerBudget, outbound, echoed, card,
                    driver, size, msg, wbuf, shortWrites, calls, frames,
                    entry, runResult >>

-----------------------------------------------------------------------------
(* Connection::poll after the read                                         *)

\* faulty variant: no check for the empty frame
ClassifyNoEmpty(m) == IF Len(m) = 1 THEN "control" ELSE "apdu"

\* msg.is_empty(), msg.len() == 1, else
Classify(m) ==
    IF Len(m) = 0 THEN "empty"
    ELSE IF Len(m) = 1 THEN "control"
    ELSE "apdu"

\* the Command of a control frame, "none" for other frames and unsupported bytes
CommandOf(m) == IF Classify(m) = "control" THEN TryFrom(m[1]).cmd ELSE "none"

\* faulty variant: an empty frame powers the card off before the error
PollEmptyPowersOff ==
    /\ pc = "dispatch"
    /\ Classify(msg) = "empty"
    /\ calls' = Append(calls, Call("power_off", << >>, << >>))
    /\ card' = PowerOff(card)
    /\ Return(ErrEmptyMessage)
    /\ UNCHANGED << received, inbuf, peerClosed, peerBudget, outbound, echoed,
                    driver, size, msg, wbuf, shortWrites, frames,
                    entry, runResult >>

PollEmpty ==
    /\ pc = "dispatch"
    /\ Classify(msg) = "empty"
    /\ Return(ErrEmptyMessage)
    /\ UNCHANGED << received, inbuf, peerClosed, peerBudget, outbound, echoed, card,
                    driver, size, msg, wbuf, shortWrites, calls, frames,
                    entry, runResult >>

\* faulty variant: an unsupported control byte is logged and skipped
PollUnsupportedSkip ==
    /\ pc = "dispatch"
    /\ Classify(msg) = "control"
    /\ ~TryFrom(msg[1]).ok
    /\ Return(Ok)
    /\ UNCHANGED << received, inbuf, peerClosed, peerBudget, outbound, echoed, card,
                    driver, size, msg, wbuf, shortWrites, calls, frames,
                    entry, runResult >>

\* Command::try_from(msg[0])? fails
PollUnsupported ==
    /\ pc = "dispatch"
    /\ Classify(msg) = "control"
    /\ ~TryFrom(msg[1]).ok
    /\ Return(TryFrom(msg[1]).err)
    /\ UNCHANGED << received, inbuf, peerClosed, peerBudget, outbound, echoed, card,
                    driver, size, msg, wbuf, shortWrites, calls, frames,
                    entry, runResult >>

\* faulty variant: the engine tracks the power state and passes PowerOff to the
\* card only if a PowerOn came after the last PowerOff
PollPowerOffIfPowered ==
    /\ pc = "dispatch"
    /\ CommandOf(msg) = "PowerOff"
    /\ IF \E i \in 1..Len(calls) :
             /\ calls[i].op = "power_on"
             /\ \A j \in (i + 1)..Len(calls) : calls[j].op # "power_off"
       THEN /\ calls' = Append(calls, Call("power_off", << >>, << >>))
            /\ card' = PowerOff(card)
       ELSE UNCHANGED << calls, card >>
    /\ Return(Ok)
    /\ UNCHANGED << received, inbuf, peerClosed, peerBudget, outbound, echoed, driver,
                    size, msg, wbuf, shortWrites, frames, entry,
                    runResult >>

PollPowerOff ==
    /\ pc = "dispatch"
    /\ CommandOf(msg) = "PowerOff"
    /\ calls' = Append(calls, Call("power_off", << >>, << >>))
    /\ card' = PowerOff(card)
    /\ Return(Ok)
    /\ UNCHANGED << received, inbuf, peerClosed, peerBudget, outbound, echoed, driver,
                    size, msg, wbuf, shortWrites, frames, entry,
                    runResult >>

PollPowerOn ==
    /\ pc = "dispatch"
    /\ CommandOf(msg) = "PowerOn"
    /\ calls' = Append(calls, Call("power_on", << >>, << >>))
    /\ card' = PowerOn(card)
    /\ Return(Ok)
    /\ UNCHANGED << received, inbuf, peerClosed, peerBudget, outbound, echoed, driver,
                    size, msg, wbuf, shortWrites, frames, entry,
                    runResult >>

\* faulty variant: a reset is answered with the ATR
PollResetAnswers ==
    /\ pc = "dispatch"
    /\ CommandOf(msg) = "Reset"
    /\ calls' = Append(calls, Call("reset", << >>, << >>))
    /\ card' = Reset(card)
    /\ StartSend(Atr(Reset(card)))
    /\ UNCHANGED << received, inbuf, peerClosed, peerBudget, outbound, echoed, driver,
                    size, msg, shortWrites, frames, results, entry,
                    runResult >>

PollReset ==
    /\ pc = "dispatch"
    /\ CommandOf(msg) = "Reset"
    /\ calls' = Append(calls, Call("reset", << >>, << >>))
    /\ card' = Reset(card)
    /\ Return(Ok)
    /\ UNCHANGED << received, inbuf, peerClosed, peerBudget, outbound, echoed, driver,
                    size, msg, wbuf, shortWrites, frames, entry,
                    runResult >>

\* faulty variant: the default ATR is sent whatever the card's atr() returns
PollGetAtrDefault ==
    /\ pc = "dispatch"
    /\ CommandOf(msg) = "GetAtr"
    /\ calls' = Append(calls, Call("atr", << >>, Atr(card)))
    /\ StartSend(DEFAULT_ATR)
    /\ UNCHANGED << received, inbuf, peerClosed, peerBudget, outbound, echoed, card,
                    driver, size, msg, shortWrites, frames, results, entry,
                    runResult >>

\* self.send(card.atr())?
PollGetAtr ==
    /\ pc = "dispatch"
    /\ CommandOf(msg) = "GetAtr"
    /\ calls' = Append(calls, Call("atr", << >>, Atr(card)))
    /\ StartSend(Atr(card))
    /\ UNCHANGED << received, inbuf, peerClosed, peerBudget, outbound, echoed, card,
                    driver, size, msg, shortWrites, frames, results, entry,
                    runResult >>

\* faulty variant: execute is given the frame without its first byte
PollApduDrops ==
    /\ pc = "dispatch"
    /\ Classify(msg) = "apdu"
    /\ \E response \in Execute(card, Tail(msg)) :
          /\ calls' = Append(calls, Call("execute", Tail(msg), response))
          /\ StartSend(response)
    /\ UNCHANGED << received, inbuf, peerClosed, peerBudget, outbound, echoed, card,
                    driver, size, msg, shortWrites, frames, results, entry,
                    runResult >>

\* let response = card.execute(&msg); self.send(&response)?
PollApdu ==
    /\ pc = "dispatch"
    /\ Classify(msg) = "apdu"
    /\ \E response \in Execute(card, msg) :
          /\ calls' = Append(calls, Call("execute", msg, response))
          /\ StartSend(response)
    /\ UNCHANGED << received, inbuf, peerClosed, peerBudget, outbound, echoed, card,
                    driver, size, msg, shortWrites, frames, results, entry,
                    runResult >>

-----------------------------------------------------------------------------
(* Specifications                                                          *)

NoResult == [kind |-> "none", detail |-> -1]

Fresh ==
    /\ peerClosed = FALSE
    /\ outbound = << >>
    /\ echoed = << >>
    /\ pc = "idle"
    /\ size = 0
    /\ msg = << >>
    /\ wbuf = << >>
    /\ shortWrites = 0
    /\ calls = << >>
    /\ frames = << >>
    /\ results = << >>
    /\ entry = [calls |-> 0, out |-> 0, frames |-> 0]
    /\ runResult = NoResult

\* a connection to a peer that sends up to MaxSent arbitrary bytes
Init ==
    /\ Fresh
    /\ received = << >>
    /\ inbuf = << >>
    /\ peerBudget = MaxSent
    /\ card \in { [kind |-> "Dummy", warm |-> FALSE],
                  [kind |-> "Custom", warm |-> FALSE],
                  [kind |-> "Custom", warm |-> TRUE] }
    /\ driver \in { "run", "poll" }

Poll ==
    \/ ReadSize \/ ReadSizeEof \/ ReadMsg \/ ReadMsgEof
    \/ PollEmpty \/ PollUnsupported
    \/ PollPowerOff \/ PollPowerOn \/ PollReset \/ PollGetAtr \/ PollApdu
    \/ WriteRest \/ WriteShort \/ WriteErr

Next == PeerSend \/ PeerClose \/ RunPoll \/ RunReturn \/ AppPoll \/ Poll

Spec == Init /\ [][Next]_vars

\* a connection to a loopback peer: it has sent one READ frame and from then
\* on sends back what the connection writes
InitWire ==
    /\ Fresh
    /\ received = << 0, 2 >> \o READ
    /\ inbuf = << 0, 2 >> \o READ
    /\ peerBudget = 0
    /\ card = [kind |-> "Loopback", warm |-> FALSE]
    /\ driver = "run"

NextWire == PeerEcho \/ PeerClose \/ RunPoll \/ RunReturn \/ Poll

SpecWire == InitWire /\ [][NextWire]_vars

\* a connection handed to run: the thread that called run executes it step by
\* step, and each blocking call returns once the stream can serve it
InitRun == Init /\ driver = "run"

RunStep == RunPoll \/ RunReturn \/ Poll

NextRun == PeerSend \/ PeerClose \/ RunStep

SpecRun == InitRun /\ [][NextRun]_vars /\ WF_vars(RunStep)

\* a connection whose peer had sent a first frame before the first poll: a
\* PowerOff, a GetAtr or an APDU
FirstFrames == { << 0, 1, 0 >>, << 0, 1, 4 >>, << 0, 2, 0, 3 >> }

InitSeq ==
    /\ Fresh
    /\ \E f \in FirstFrames : received = f /\ inbuf = f
    /\ peerBudget = MaxSent - 1
    /\ card \in { [kind |-> "Dummy", warm |-> FALSE],
                  [kind |-> "Custom", warm |-> FALSE] }
    /\ driver \in { "run", "poll" }

SpecSeq == InitSeq /\ [][Next]_vars

-----------------------------------------------------------------------------
(* What the current (or, between polls, the last) poll has done            *)

PollDone == results # << >> /\ pc \in { "idle", "returned" }
PollResult == Last(results)
PollCalls == Drop(calls, entry.calls)
PollWritten == Drop(outbound, entry.out)
PollRead == Len(frames) > entry.frames
PollFrame == Last(frames)
\* the buffer of the send in progress: what is written of it and what is left
PollSending == PollWritten \o wbuf
IsPrefix(s, t) == Len(s) <= Len(t) /\ s = Take(t, Len(s))
Consumed == Len(received) - Len(inbuf)

\* the wire format: a 2-byte big-endian length, then that many payload bytes
WireFrame(p) == << Len(p) \div 256, Len(p) % 256 >> \o p

RECURSIVE WireOf(_)
WireOf(fs) == IF fs = << >> THEN << >> ELSE WireFrame(Head(fs)) \o WireOf(Tail(fs))

\* what atr() and execute() have returned so far, in order
RECURSIVE Returned(_)
Returned(cs) ==
    IF cs = << >> THEN << >>
    ELSE IF Head(cs).op \in { "atr", "execute" }
         THEN << Head(cs).ret >> \o Returned(Tail(cs))
         ELSE Returned(Tail(cs))

RECURSIVE WireLen(_, _)
WireLen(ps, n) == IF n = 0 THEN 0 ELSE 2 + Len(ps[n]) + WireLen(ps, n - 1)

-----------------------------------------------------------------------------
(* Claims                                                                  *)

\* C1: a poll that reads a frame of two or more bytes calls execute exactly
\* once, with exactly the frame as argument, and calls nothing else; while it
\* sends, the buffer is two prefix bytes and then exactly what execute
\* returned; when poll returns Ok exactly that buffer has been written, and
\* when the write fails only a proper part of it, and nothing else.
C1_ApduToExecute ==
    /\ (PollRead /\ Len(PollFrame) >= 2 /\ pc = "send") =>
          /\ Len(PollCalls) = 1
          /\ Len(PollSending) = 2 + Len(PollCalls[1].ret)
          /\ Drop(PollSending, 2) = PollCalls[1].ret
    /\ (PollDone /\ PollRead /\ Len(PollFrame) >= 2) =>
          /\ Len(PollCalls) = 1
          /\ PollCalls[1].op = "execute"
          /\ PollCalls[1].arg = PollFrame
          /\ PollResult \in { Ok, ErrBrokenPipe }
          /\ PollResult = Ok =>
                /\ Len(PollWritten) = 2 + Len(PollCalls[1].ret)
                /\ Drop(PollWritten, 2) = PollCalls[1].ret
          /\ PollResult # Ok =>
                /\ Len(PollWritten) < 2 + Len(PollCalls[1].ret)
                /\ Drop(PollWritten, 2) = Take(PollCalls[1].ret, Len(PollWritten) - 2)

C1_Witness ==
    /\ PollDone /\ PollRead /\ PollFrame = << 0, 3 >>
    /\ PollResult = Ok
    /\ PollCalls = << Call("execute", << 0, 3 >>, << 144, 0 >>) >>
    /\ PollWritten = << 0, 2, 144, 0 >>

\* C2: a poll that reads a control frame with byte 0, 1 or 2 calls exactly
\* power_off, power_on or reset respectively, once, calls nothing else, never
\* enters send, writes no byte and returns Ok.
C2_PowerHooks ==
    (PollRead /\ Len(PollFrame) = 1 /\ PollFrame[1] \in { 0, 1, 2 }) =>
        /\ pc # "send"
        /\ PollWritten = << >>
        /\ PollDone =>
              /\ PollCalls = << Call(CASE PollFrame[1] = 0 -> "power_off"
                                       [] PollFrame[1] = 1 -> "power_on"
                                       [] PollFrame[1] = 2 -> "reset",
                                     << >>, << >>) >>
              /\ PollResult = Ok

C2_Witness ==
    /\ PollDone /\ PollRead /\ PollFrame = << 2 >>
    /\ PollCalls = << Call("reset", << >>, << >>) >>
    /\ card = [kind |-> "Custom", warm |-> TRUE]
    /\ Len(results) = 1
    /\ PollResult = Ok

\* C3: a poll that reads the control frame with byte 4 calls atr() and no
\* other method, and when it returns Ok has written one frame whose payload is
\* the card's ATR of that moment: for a card that does not override atr the
\* bytes 00 0B 3B 95 13 81 01 80 73 FF 01 00 0B; when the write fails only a
\* part of that frame has been written.
C3_GetAtr ==
    (PollDone /\ PollRead /\ PollFrame = << 4 >>) =>
        /\ PollCalls = << Call("atr", << >>, Atr(card)) >>
        /\ PollResult \in { Ok, ErrBrokenPipe }
        /\ PollResult = Ok =>
              /\ Drop(PollWritten, 2) = Atr(card)
              /\ card.kind = "Dummy" =>
                    PollWritten = << 0, 11, 59, 149, 19, 129, 1, 128, 115, 255, 1, 0, 11 >>
              /\ (card.kind = "Custom" /\ card.warm) => PollWritten = << 0, 2, 59, 0 >>
              /\ (card.kind = "Custom" /\ ~card.warm) =>
                    PollWritten = << 0, 5, 59, 128, 128, 1, 1 >>
        /\ PollResult # Ok =>
              /\ Len(PollWritten) < 2 + Len(Atr(card))
              /\ Drop(PollWritten, 2) = Take(Atr(card), Len(PollWritten) - 2)

C3_Witness ==
    /\ PollDone /\ PollRead /\ PollFrame = << 4 >>
    /\ card.kind = "Dummy"
    /\ PollResult = Ok
    /\ PollWritten = << 0, 11, 59, 149, 19, 129, 1, 128, 115, 255, 1, 0, 11 >>

\* C4: a poll that reads a zero-length frame returns the "received an empty
\* message" error (not a decode error), calls no card method, never enters
\* send and writes no byte; under run the only step left is run returning
\* that error.
C4_EmptyFrame ==
    (PollRead /\ PollFrame = << >>) =>
        /\ pc # "send"
        /\ PollCalls = << >>
        /\ PollWritten = << >>
        /\ PollDone =>
              /\ PollResult = [kind |-> "Other: received an empty message", detail |-> -1]
              /\ driver = "run" =>
                    \/ pc = "returned" /\ runResult = PollResult
                    \/ pc = "idle" /\ ENABLED RunReturn /\ ~ENABLED RunPoll

C4_Witness ==
    /\ PollDone /\ PollRead /\ PollFrame = << >>
    /\ driver = "run"
    /\ pc = "returned"
    /\ runResult = ErrEmptyMessage

\* C5: a poll that reads a control frame whose byte is none of 0, 1, 2, 4
\* returns the InvalidData error carrying that byte (never Ok), calls no card
\* method, never enters send and writes no byte.
C5_UnsupportedCommand ==
    (PollRead /\ Len(PollFrame) = 1 /\ PollFrame[1] \notin { 0, 1, 2, 4 }) =>
        /\ pc # "send"
        /\ PollCalls = << >>
        /\ PollWritten = << >>
        /\ PollDone =>
              PollResult = [kind |-> "InvalidData: unsupported control command",
                            detail |-> PollFrame[1]]

C5_Witness ==
    /\ PollDone /\ PollRead /\ PollFrame = << 3 >>
    /\ PollResult = ErrUnsupported(3)
    /\ calls = << >>
    /\ outbound = << >>

\* C6 as claimed: the buffer send writes begins with two bytes that, read as
\* a big-endian number, are the number of bytes that follow them, whatever
\* the card returned.
C6_PrefixEqualsLength ==
    /\ pc = "send" =>
          PollSending[1] * 256 + PollSending[2] = Len(PollSending) - 2
    /\ (PollDone /\ PollResult = Ok /\ PollWritten # << >>) =>
          PollWritten[1] * 256 + PollWritten[2] = Len(PollWritten) - 2

\* C6 as amended: the buffer send writes is two prefix bytes and then the
\* whole payload the card returned; the prefix is the payload length modulo
\* 65536, so it is the number of bytes that follow for every payload of at
\* most 65535 bytes.
C6_PrefixWithinU16 ==
    /\ pc = "send" =>
          /\ Drop(PollSending, 2) = Last(PollCalls).ret
          /\ PollSending[1] * 256 + PollSending[2] = Len(Last(PollCalls).ret) % 65536
          /\ Len(Last(PollCalls).ret) <= 65535 =>
                PollSending[1] * 256 + PollSending[2] = Len(PollSending) - 2
    /\ (PollDone /\ PollResult = Ok /\ PollWritten # << >>) =>
          /\ Drop(PollWritten, 2) = Last(PollCalls).ret
          /\ PollWritten[1] * 256 + PollWritten[2] = Len(Last(PollCalls).ret) % 65536
          /\ Len(Last(PollCalls).ret) <= 65535 =>
                PollWritten[1] * 256 + PollWritten[2] = Len(PollWritten) - 2

C6_Witness ==
    /\ PollDone /\ PollResult = Ok
    /\ Len(PollCalls) = 1
    /\ Len(PollCalls[1].ret) = 256
    /\ Take(PollWritten, 2) = << 1, 0 >>
    /\ Len(PollWritten) = 258

\* C7: under run every poll before the last returned Ok; while the last
\* result is Ok the only step of run is the next poll; once a poll has failed
\* no poll is in progress or started again, the only step of run is to
\* return, and what run returns is that poll's error, never Ok.
C7_RunStopsAtFirstError ==
    driver = "run" =>
        /\ \A i \in 1..(Len(results) - 1) : results[i] = Ok
        /\ (results # << >> /\ IsErr(PollResult)) =>
              /\ pc \in { "idle", "returned" }
              /\ ~ENABLED RunPoll
              /\ pc = "idle" => ENABLED RunReturn
        /\ (pc = "idle" /\ results # << >> /\ ~IsErr(PollResult)) =>
              ENABLED RunPoll /\ ~ENABLED RunReturn
        /\ pc = "returned" =>
              /\ results # << >>
              /\ runResult = PollResult
              /\ IsErr(runResult)
        /\ pc # "returned" => runResult = NoResult

C7_Witness ==
    /\ driver = "run"
    /\ pc = "returned"
    /\ results = << Ok, ErrEmptyMessage >>
    /\ runResult = ErrEmptyMessage
    /\ Len(frames) = 2

\* C8 as claimed: once a poll of the connection has failed, no frame is read,
\* no card method is called and no byte is written on it any more.
C8_FailedPollIsFinal ==
    [][ (\E i \in 1..Len(results) : IsErr(results[i])) =>
            /\ frames' = frames
            /\ calls' = calls
            /\ outbound' = outbound ]_vars

\* C9: with a peer that sends back what the connection wrote, the k-th
\* payload the connection has sent comes back from read as the frame after
\* the READ frame and the k-1 before it, byte for byte, as long as that
\* payload and those before it have at most 65535 bytes; and when read
\* returns it, read has consumed exactly the READ frame and len+2 bytes for
\* each payload so far.
C9_RoundTrip ==
    \A k \in 1..Len(Returned(calls)) :
        (k + 1 <= Len(frames) /\ \A j \in 1..k : Len(Returned(calls)[j]) <= 65535) =>
            /\ frames[k + 1] = Returned(calls)[k]
            /\ (pc = "dispatch" /\ Len(frames) = k + 1) =>
                  Consumed = 4 + WireLen(Returned(calls), k)

C9_Witness ==
    /\ Len(frames) = 3
    /\ Len(frames[2]) = 256
    /\ frames[2] = Returned(calls)[1]
    /\ frames[3] = << 144, 0 >>
    /\ pc = "dispatch"
    /\ Consumed = 4 + 258 + 4

\* C10: when the stream is at its end with less than the two prefix bytes, or
\* less than the announced payload, the only step of poll is to fail; a poll
\* that returns without a frame returned UnexpectedEof, called no card method
\* and wrote nothing; and the frames read so far are, with their prefixes,
\* exactly the start of the bytes received: no frame rests on a short read.
C10_ShortReadFails ==
    /\ (pc = "read_size" /\ peerClosed /\ Len(inbuf) < 2) =>
          ENABLED ReadSizeEof /\ ~ENABLED ReadSize /\ ~ENABLED ReadMsg
    /\ (pc = "read_msg" /\ peerClosed /\ Len(inbuf) < size) =>
          ENABLED ReadMsgEof /\ ~ENABLED ReadMsg
    /\ (PollDone /\ ~PollRead) =>
          /\ PollResult = [kind |-> "UnexpectedEof", detail |-> -1]
          /\ PollCalls = << >>
          /\ PollWritten = << >>
    /\ pc \in { "dispatch", "send" } => PollRead
    /\ IsPrefix(WireOf(frames), received)

C10_Witness ==
    /\ PollDone /\ ~PollRead
    /\ received = << 0 >>
    /\ peerClosed
    /\ PollResult = ErrUnexpectedEof
    /\ calls = << >>
    /\ outbound = << >>

\* every poll before the current one returned Ok after reading one frame each,
\* and every response handed to send is completely on the stream
PriorFramesComplete ==
    /\ Len(results) = Len(frames)
    /\ \A i \in 1..Len(results) : results[i] = Ok
    /\ wbuf = << >>
    /\ outbound = WireOf(Returned(calls))

\* C11: within run, frames are processed one at a time: while a frame is
\* dispatched and its response written, exactly the bytes of the frames read so
\* far have been taken from the stream and none of the next frame; when the
\* bytes of the next frame are taken, every earlier frame has been read, its
\* card call has returned, its poll returned Ok and its response is completely
\* written; and there is at most one card call per frame read, made after the
\* frame is read and before the next one is.
C11_OneFrameAtATime ==
    driver = "run" =>
       /\ pc \in { "dispatch", "send" } => Consumed = Len(WireOf(frames))
       /\ pc = "read_size" =>
             Consumed = Len(WireOf(frames)) /\ PriorFramesComplete
       /\ pc = "read_msg" =>
             Consumed = Len(WireOf(frames)) + 2 /\ PriorFramesComplete
       /\ Len(calls) <= Len(frames)
       /\ pc = "dispatch" => Len(calls) < Len(frames)
       /\ Len(PollCalls) <= 1

C11_Witness ==
    /\ driver = "run"
    /\ pc = "send"
    /\ frames = << << 4 >> >>
    /\ Len(calls) = 1
    /\ outbound # << >> /\ wbuf # << >>
    /\ inbuf = << 0, 0 >>
    /\ Consumed = 3

\* C12: once the stream has accepted only a part of the length-plus-payload
\* buffer, the send is over: no further byte of the buffer is written, and if
\* the poll returns, it returns an error.
C12_ShortWriteIsFatal ==
    [][ (pc = "send" /\ PollWritten # << >> /\ wbuf # << >>) =>
           /\ outbound' = outbound
           /\ results' # results => IsErr(Last(results')) ]_vars

\* run waits in a read for bytes the peer has not sent
BlockedInRead ==
    \/ pc = "read_size" /\ Len(inbuf) < 2
    \/ pc = "read_msg" /\ Len(inbuf) < size

\* C13: once the peer has closed the stream, after finitely many bytes, run
\* eventually returns, and what it returns is an error; and whenever run has
\* not returned and cannot take a step, it is blocked in a read on a stream
\* that the peer has left open.
C13_RunTerminates ==
    /\ peerClosed ~> (pc = "returned" /\ IsErr(runResult))
    /\ []((pc # "returned" /\ ~ENABLED RunStep) => (~peerClosed /\ BlockedInRead))

C13_Witness ==
    /\ driver = "run"
    /\ peerClosed
    /\ pc = "returned"
    /\ received = << 0, 1, 0, 0, 3 >>
    /\ results = << Ok, ErrUnexpectedEof >>
    /\ runResult = ErrUnexpectedEof

\* the frames poll answers: GetAtr and every frame of two bytes or more
Responds(f) == Len(f) >= 2 \/ f = << 4 >>
IsResponse(c) == c.op \in { "atr", "execute" }
\* the frames whose dispatch has been made
Dispatched == IF pc = "dispatch" THEN Take(frames, Len(frames) - 1) ELSE frames
NoWriteFailed == \A i \in 1..Len(results) : results[i] # ErrBrokenPipe

\* C14: the responses are, in arrival order, one per GetAtr frame and one per
\* frame of two bytes or more that was read, and nothing else: the k-th
\* response is what atr() returned for the k-th such frame if it is a GetAtr,
\* and what execute returned for it otherwise; as long as no write has failed,
\* the bytes written (with those of the send in progress) are exactly these
\* responses as frames, one after the other; never are there more responses
\* than frames read, and PowerOff, PowerOn, Reset, empty and unrecognized
\* frames add none.
C14_OneResponsePerRequest ==
    LET answered == SelectSeq(Dispatched, Responds)
        responses == SelectSeq(calls, IsResponse)
    IN  /\ Len(responses) = Len(answered)
        /\ \A k \in 1..Len(responses) :
              IF answered[k] = << 4 >>
              THEN responses[k].op = "atr"
              ELSE responses[k].op = "execute" /\ responses[k].arg = answered[k]
        /\ Len(responses) <= Len(frames)
        /\ Len(outbound) <= Len(WireOf(Returned(calls)))
        /\ NoWriteFailed =>
              outbound \o (IF pc = "send" THEN wbuf ELSE << >>)
                 = WireOf(Returned(calls))

C14_Witness ==
    /\ PollDone
    /\ card.kind = "Custom"
    /\ frames = << << 4 >>, << 1, 2 >> >>
    /\ results = << Ok, Ok >>
    /\ outbound = WireFrame(COLD_ATR) \o WireFrame(<< 1, 2 >>)

IsMutating(c) == c.op \in { "power_off", "power_on", "reset", "execute" }

\* C15: a poll calls at most one of power_off, power_on, reset and execute (and
\* at most one card method at all) and writes at most one frame: what it has
\* written is the start of the frame of the response its one call returned;
\* and a poll that returned an error after a card call returned the error of
\* the response's write, while a poll that returned a read error, the
\* empty-frame error or the decode error has called no card method and written
\* nothing.
C15_OneCallOneFrame ==
    /\ Len(SelectSeq(PollCalls, IsMutating)) <= 1
    /\ Len(PollCalls) <= 1
    /\ PollWritten # << >> =>
          /\ PollCalls # << >>
          /\ IsResponse(PollCalls[1])
          /\ IsPrefix(PollWritten, SendMsg(PollCalls[1].ret))
    /\ (PollDone /\ IsErr(PollResult) /\ PollCalls # << >>) =>
          /\ PollResult = ErrBrokenPipe
          /\ IsResponse(PollCalls[1])
          /\ PollWritten # SendMsg(PollCalls[1].ret)
    /\ (PollDone /\ IsErr(PollResult) /\ PollResult # ErrBrokenPipe) =>
          /\ PollCalls = << >>
          /\ PollWritten = << >>

C15_Witness ==
    /\ PollDone
    /\ PollResult = ErrBrokenPipe
    /\ card.kind = "Custom"
    /\ PollCalls = << Call("execute", << 1, 2 >>, << 1, 2 >>) >>
    /\ PollWritten = << 0 >>

\* the card method poll calls for a frame, "none" for an empty frame and for an
\* unsupported control byte
OpFor(f) ==
    CASE Classify(f) = "apdu" -> "execute"
      [] CommandOf(f) = "PowerOff" -> "power_off"
      [] CommandOf(f) = "PowerOn" -> "power_on"
      [] CommandOf(f) = "Reset" -> "reset"
      [] CommandOf(f) = "GetAtr" -> "atr"
      [] OTHER -> "none"

RECURSIVE OpsFor(_)
OpsFor(fs) ==
    IF fs = << >> THEN << >>
    ELSE (IF OpFor(Head(fs)) = "none" THEN << >> ELSE << OpFor(Head(fs)) >>)
            \o OpsFor(Tail(fs))

CallOps(cs) == [i \in 1..Len(cs) |-> cs[i].op]

\* C16: dispatch does not depend on history: the card methods called so far
\* are, frame by frame, the method that the bytes of each frame alone
\* determine, whatever frames came before it; a poll starts a response exactly
\* for a GetAtr frame and a frame of two bytes or more; and an APDU frame is
\* passed to execute also when the calls before it hold a power_off and no
\* power_on and no atr.
C16_DispatchIgnoresHistory ==
    /\ CallOps(calls) = OpsFor(Dispatched)
    /\ (PollRead /\ pc # "dispatch") =>
          /\ CallOps(PollCalls) = OpsFor(<< PollFrame >>)
          /\ Classify(PollFrame) = "apdu" => PollCalls[1].arg = PollFrame
    /\ pc = "send" => Responds(PollFrame)
    /\ (PollDone /\ PollRead /\ PollResult = Ok) =>
          (PollWritten # << >> <=> Responds(PollFrame))

C16_Witness ==
    /\ PollDone /\ PollResult = Ok
    /\ frames = << << 0 >>, << 1, 2 >> >>
    /\ CallOps(calls) = << "power_off", "execute" >>
    /\ calls[2].arg = << 1, 2 >>
    /\ PollWritten # << >>

====
